---- MODULE Spec2Model ----
(***************************************************************************)
(* Model of the hybrid product search of product_search.py                 *)
(* (SearchSimilarProduct): the store loaded by _load_embeddings, the input *)
(* normalizer _correct_input (difflib.get_close_matches), the semantic     *)
(* ranking by Euclidean distance and the fuzzy fallback                    *)
(* (rapidfuzz.fuzz.token_sort_ratio) of search_similar_products.           *)
(*                                                                         *)
(* Strings are sequences of character codes (97 = "a", 98 = "b",           *)
(* 32 = " ").  Vector coordinates are integers; a distance is kept as its  *)
(* exact square (the Euclidean norm is monotone in it), and                *)
(* minimal_distance is an integer in the same unit, so that                *)
(* dist < minimal_distance is dist^2 < minimal_distance^2.                 *)
(***************************************************************************)
EXTENDS Integers, Sequences, FiniteSets, TLC

VARIABLES pc, load, products, vectors, top_k, minimal_distance, call, norm,
          prev, inflight, invoices, lookup, agent, bridge

vars == <<pc, load, products, vectors, top_k, minimal_distance, call, norm,
          prev, inflight, invoices, lookup, agent, bridge>>

\* The state outside the search instance and its current call.
aux == <<prev, inflight, invoices, lookup, agent, bridge>>

(* ------------------------------ bounds --------------------------------- *)
MaxRows == 2
MaxTopK == 2
MaxVocab == 2

MaxPending == 2
MaxMessages == 2
MaxProcs == 2

(* ------------------------------ strings -------------------------------- *)
Space == 32

\* Python None: the value of a NULL description column (Oracle also stores
\* the empty string as NULL).  It is no string: 0 is not a character code.
NoneValue == <<0>>

IsNone(x) == x = NoneValue

Min2(x, y) == IF x <= y THEN x ELSE y

\* str < str of Python: lexicographic order on the code points.
StrLess(s, t) ==
    \E k \in 1..(Len(t)) :
        /\ \A i \in 1..(k - 1) : i <= Len(s) /\ s[i] = t[i]
        /\ \/ k > Len(s)
           \/ k <= Len(s) /\ s[k] < t[k]

\* str.strip(): drops the leading and the trailing whitespace.
RECURSIVE LStrip(_)
LStrip(s) == IF s # <<>> /\ Head(s) = Space THEN LStrip(Tail(s)) ELSE s

RECURSIVE RStrip(_)
RStrip(s) ==
    IF s # <<>> /\ s[Len(s)] = Space THEN RStrip(SubSeq(s, 1, Len(s) - 1)) ELSE s

StripNothing(s) == s

Strip(s) == RStrip(LStrip(s))

(* ------------------- difflib (Python standard library) ----------------- *)
\* The cutoff 0.6 of get_close_matches, in tenths.
CutoffTenths == 6

\* Length of the common run of a and b that starts at a[i], b[j] and stays
\* within a[..ahi], b[..bhi].
RECURSIVE RunLen(_, _, _, _, _, _)
RunLen(a, b, i, j, ahi, bhi) ==
    IF i <= ahi /\ j <= bhi /\ a[i] = b[j]
    THEN 1 + RunLen(a, b, i + 1, j + 1, ahi, bhi)
    ELSE 0

SetMax(S) == CHOOSE x \in S : \A y \in S : y <= x
SetMin(S) == CHOOSE x \in S : \A y \in S : x <= y

\* SequenceMatcher.find_longest_match without junk: the longest block common
\* to a[alo..ahi] and b[blo..bhi]; of the longest ones the block starting
\* earliest in a, and of those the one starting earliest in b.
FindLongestMatch(a, b, alo, ahi, blo, bhi) ==
    LET best == SetMax({0} \cup {RunLen(a, b, i, j, ahi, bhi) :
                                   i \in alo..ahi, j \in blo..bhi})
    IN  IF best = 0
        THEN [i |-> alo, j |-> blo, size |-> 0]
        ELSE LET bi == SetMin({i \in alo..ahi :
                                 \E j \in blo..bhi : RunLen(a, b, i, j, ahi, bhi) = best})
                 bj == SetMin({j \in blo..bhi : RunLen(a, b, bi, j, ahi, bhi) = best})
             IN  [i |-> bi, j |-> bj, size |-> best]

\* Sum of the sizes of SequenceMatcher.get_matching_blocks: the longest
\* match, then recursively the pieces to its left and to its right.
RECURSIVE MatchingBlocks(_, _, _, _, _, _)
MatchingBlocks(a, b, alo, ahi, blo, bhi) ==
    LET m == FindLongestMatch(a, b, alo, ahi, blo, bhi)
    IN  IF m.size = 0
        THEN 0
        ELSE m.size
             + (IF alo < m.i /\ blo < m.j
                THEN MatchingBlocks(a, b, alo, m.i - 1, blo, m.j - 1)
                ELSE 0)
             + (IF m.i + m.size <= ahi /\ m.j + m.size <= bhi
                THEN MatchingBlocks(a, b, m.i + m.size, ahi, m.j + m.size, bhi)
                ELSE 0)

\* _calculate_ratio: 2.0 * matches / length, and 1.0 when both are empty;
\* kept as the fraction num / den with den > 0.
CalculateRatio(matches, length) ==
    IF length > 0 THEN [num |-> 2 * matches, den |-> length]
                  ELSE [num |-> 1, den |-> 1]

\* SequenceMatcher(a = x, b = word).ratio()
Ratio(x, word) ==
    CalculateRatio(MatchingBlocks(x, word, 1, Len(x), 1, Len(word)),
                   Len(x) + Len(word))

Count(s, c) == Cardinality({i \in 1..Len(s) : s[i] = c})

Chars(s) == {s[i] : i \in 1..Len(s)}

RECURSIVE SumOver(_, _, _, _)
SumOver(S, a, b, acc) ==
    IF S = {} THEN acc
    ELSE LET c == CHOOSE x \in S : TRUE
         IN  SumOver(S \ {c}, a, b, acc + Min2(Count(a, c), Count(b, c)))

\* SequenceMatcher.quick_ratio(): the size of the multiset intersection.
QuickRatio(x, word) ==
    CalculateRatio(SumOver(Chars(x), x, word, 0), Len(x) + Len(word))

\* SequenceMatcher.real_quick_ratio()
RealQuickRatio(x, word) ==
    CalculateRatio(Min2(Len(x), Len(word)), Len(x) + Len(word))

AboveCutoff(r) == 10 * r.num > CutoffTenths * r.den

\* r >= cutoff
AtLeastCutoff(r) == 10 * r.num >= CutoffTenths * r.den

RatioLess(r, s) == r.num * s.den < s.num * r.den
RatioEq(r, s) == r.num * s.den = s.num * r.den

\* The test of get_close_matches that admits a possibility x.
CloseEnough(x, word) ==
    /\ AtLeastCutoff(RealQuickRatio(x, word))
    /\ AtLeastCutoff(QuickRatio(x, word))
    /\ AtLeastCutoff(Ratio(x, word))

\* (score1, x1) < (score2, x2) on Python tuples
TupleLess(r1, x1, r2, x2) ==
    \/ RatioLess(r1, r2)
    \/ RatioEq(r1, r2) /\ StrLess(x1, x2)

FirstAdmitted(possibilities, word, admitted) == SetMin(admitted)

\* heapq.nlargest(1, result) for result = [(ratio, x), ...]: max(result), the
\* first tuple that no other tuple exceeds.
NLargest1(possibilities, word, admitted) ==
    SetMin({i \in admitted :
              \A j \in admitted :
                 ~TupleLess(Ratio(possibilities[i], word), possibilities[i],
                            Ratio(possibilities[j], word), possibilities[j])})

\* difflib.get_close_matches(word, possibilities, n=1, cutoff=0.6).
\* len(None) in real_quick_ratio raises TypeError.
GetCloseMatches(word, possibilities) ==
    IF \E i \in 1..Len(possibilities) : IsNone(possibilities[i])
    THEN [raised |-> TRUE, value |-> <<>>]
    ELSE LET admitted == {i \in 1..Len(possibilities) :
                             CloseEnough(possibilities[i], word)}
         IN  [raised |-> FALSE,
              value |-> IF admitted = {} THEN <<>>
                        ELSE <<possibilities[NLargest1(possibilities, word, admitted)]>>]

(* --------------------------- _correct_input ---------------------------- *)
Descriptions(prods) == [i \in 1..Len(prods) |-> prods[i].description]

\* SearchSimilarProduct._correct_input
CorrectInput(prods, input_user) ==
    LET suggestions == GetCloseMatches(input_user, Descriptions(prods))
    IN  IF suggestions.raised
        THEN [raised |-> TRUE, value |-> <<>>]
        ELSE [raised |-> FALSE,
              value |-> IF suggestions.value # <<>> THEN suggestions.value[1]
                        ELSE input_user]

(* ------------------ rapidfuzz.fuzz.token_sort_ratio -------------------- *)
\* str.split(): the maximal runs of non-whitespace characters, in order.
RECURSIVE SplitFrom(_, _, _)
SplitFrom(s, i, cur) ==
    IF i > Len(s)
    THEN IF cur = <<>> THEN <<>> ELSE <<cur>>
    ELSE IF s[i] = Space
         THEN IF cur = <<>> THEN SplitFrom(s, i + 1, <<>>)
                            ELSE <<cur>> \o SplitFrom(s, i + 1, <<>>)
         ELSE SplitFrom(s, i + 1, Append(cur, s[i]))

Split(s) == SplitFrom(s, 1, <<>>)

\* sorted(tokens): the position of token i is the number of tokens before it
\* in the order (equal tokens keep their order).
SortedTokens(toks) ==
    LET n == Len(toks)
        pos(i) == 1 + Cardinality({j \in 1..n :
                        \/ StrLess(toks[j], toks[i])
                        \/ toks[j] = toks[i] /\ j < i})
    IN  [k \in 1..n |-> toks[CHOOSE i \in 1..n : pos(i) = k]]

\* " ".join(tokens)
RECURSIVE Join(_)
Join(toks) ==
    IF toks = <<>> THEN <<>>
    ELSE IF Len(toks) = 1 THEN toks[1]
    ELSE toks[1] \o <<Space>> \o Join(Tail(toks))

\* Length of the longest common subsequence of s[i..] and t[j..].
RECURSIVE LCS(_, _, _, _)
LCS(s, t, i, j) ==
    IF i > Len(s) \/ j > Len(t) THEN 0
    ELSE IF s[i] = t[j] THEN 1 + LCS(s, t, i + 1, j + 1)
    ELSE LET x == LCS(s, t, i + 1, j)
             y == LCS(s, t, i, j + 1)
         IN  IF x >= y THEN x ELSE y

\* fuzz.ratio: 100 * (1 - indel_distance / (len1 + len2)), the normalized
\* Indel similarity, 100 for two empty strings; kept as the fraction
\* 100 * num / den.
FuzzRatio(s, t) ==
    IF Len(s) + Len(t) = 0 THEN [num |-> 1, den |-> 1]
    ELSE [num |-> 2 * LCS(s, t, 1, 1), den |-> Len(s) + Len(t)]

\* fuzz.token_sort_ratio(s1, s2): 0 when an argument is None, else the ratio
\* of the two strings with their tokens sorted.
TokenSortRatio(s1, s2) ==
    IF IsNone(s1) \/ IsNone(s2) THEN [num |-> 0, den |-> 1]
    ELSE FuzzRatio(Join(SortedTokens(Split(s1))), Join(SortedTokens(Split(s2))))

\* round(score, 2), in hundredths (0 .. 10000 stands for 0.00 .. 100.00).
RoundScore(r) == (2 * 10000 * r.num + r.den) \div (2 * r.den)

(* ------------------------------ numpy ---------------------------------- *)
\* self.vectors - consult_emb with numpy's broadcasting rules: the store is
\* an (N, D) matrix, or the 1-d array np.array([]) of shape (0,) when no row
\* was loaded; the query vector has shape (Dq,).  A ValueError is raised when
\* the shapes cannot be broadcast.
Subtract(vecs, q) ==
    LET N == Len(vecs)
        Dq == Len(q)
    IN  IF N = 0
        THEN [raised |-> Dq # 1, ndim |-> 1, rows |-> <<>>]
        ELSE LET D == Len(vecs[1])
             IN  IF D = Dq
                 THEN [raised |-> FALSE, ndim |-> 2,
                       rows |-> [i \in 1..N |-> [k \in 1..D |-> vecs[i][k] - q[k]]]]
                 ELSE IF Dq = 1
                 THEN [raised |-> FALSE, ndim |-> 2,
                       rows |-> [i \in 1..N |-> [k \in 1..D |-> vecs[i][k] - q[1]]]]
                 ELSE IF D = 1
                 THEN [raised |-> FALSE, ndim |-> 2,
                       rows |-> [i \in 1..N |-> [k \in 1..Dq |-> vecs[i][1] - q[k]]]]
                 ELSE [raised |-> TRUE, ndim |-> 2, rows |-> <<>>]

RECURSIVE SumSquares(_)
SumSquares(v) == IF v = <<>> THEN 0 ELSE Head(v) * Head(v) + SumSquares(Tail(v))

\* np.linalg.norm(diff, axis=1), each norm kept as its square; AxisError is
\* raised for a 1-d array.
Norm(diff) ==
    IF diff.raised \/ diff.ndim < 2
    THEN [raised |-> TRUE, dists |-> <<>>]
    ELSE [raised |-> FALSE,
          dists |-> [i \in 1..Len(diff.rows) |-> SumSquares(diff.rows[i])]]

IndexOrders(n) ==
    {p \in [1..n -> 1..n] : \A i, j \in 1..n : p[i] = p[j] => i = j}

ArgSortsUnsorted(dists) == IndexOrders(Len(dists))

\* np.argsort(dists): an index array that sorts dists.  The default kind
\* ('quicksort') is not a stable sort, so equal distances may come in any
\* order.
ArgSorts(dists) ==
    {p \in IndexOrders(Len(dists)) :
        \A i \in 1..(Len(dists) - 1) : dists[p[i]] <= dists[p[i + 1]]}

TakeAfterFirst(seq, k) == SubSeq(seq, 2, Min2(k + 1, Len(seq)))

\* seq[:k] for k >= 0
Take(seq, k) == SubSeq(seq, 1, Min2(k, Len(seq)))

(* ---------------------- search_similar_products ------------------------ *)
KeepAtThreshold(dist2, md) == dist2 <= md * md

\* if dist < self.minimal_distance
Keep(dist2, md) == dist2 < md * md

\* The loop over top_indices = np.argsort(dists)[:self.top_k].
RECURSIVE SemanticLoop(_, _, _, _)
SemanticLoop(prods, dists, top_indices, md) ==
    IF top_indices = <<>> THEN <<>>
    ELSE LET idx == Head(top_indices)
             rest == SemanticLoop(prods, dists, Tail(top_indices), md)
         IN  IF Keep(dists[idx], md)
             THEN <<[id |-> prods[idx].id,
                     code |-> prods[idx].code,
                     description |-> prods[idx].description,
                     distance |-> dists[idx]]>> \o rest
             ELSE rest

SortByScoreAscending(scores) ==
    LET n == Len(scores)
        pos(i) == 1 + Cardinality({j \in 1..n :
                        \/ RatioLess(scores[j], scores[i])
                        \/ RatioEq(scores[i], scores[j]) /\ j < i})
    IN  [k \in 1..n |-> CHOOSE i \in 1..n : pos(i) = k]

SortByScoreTiesLast(scores) ==
    LET n == Len(scores)
        pos(i) == 1 + Cardinality({j \in 1..n :
                        \/ RatioLess(scores[i], scores[j])
                        \/ RatioEq(scores[i], scores[j]) /\ j > i})
    IN  [k \in 1..n |-> CHOOSE i \in 1..n : pos(i) = k]

\* better_fuzz.sort(key=lambda x: x[1], reverse=True): list.sort is stable,
\* also with reverse=True, so equal scores keep the store order.
SortByScore(scores) ==
    LET n == Len(scores)
        pos(i) == 1 + Cardinality({j \in 1..n :
                        \/ RatioLess(scores[i], scores[j])
                        \/ RatioEq(scores[i], scores[j]) /\ j < i})
    IN  [k \in 1..n |-> CHOOSE i \in 1..n : pos(i) = k]

\* The fuzzy fallback: every product scored, sorted, the first top_k kept.
FuzzyFallback(prods, query, k) ==
    LET scores == [i \in 1..Len(prods) |->
                      TokenSortRatio(query, prods[i].description)]
        best == Take(SortByScore(scores), k)
    IN  [n \in 1..Len(best) |->
            [id |-> prods[best[n]].id,
             code |-> prods[best[n]].code,
             description |-> prods[best[n]].description,
             score_fuzzy |-> RoundScore(scores[best[n]])]]

FallbackAlways(semantics) == TRUE

FallbackNever(semantics) == FALSE

\* if not results["semantics"]
FallbackNeeded(semantics) == semantics = <<>>

\* The body of the try block.  e is the outcome of embed_query (a vector, or
\* an exception), order the index array np.argsort returns.
TryBody(prods, vecs, k, md, corrected, e, order) ==
    LET norms == Norm(Subtract(vecs, e.v))
    IN  IF e.status # "ok" \/ norms.raised
        THEN [raised |-> TRUE, semantics |-> <<>>, fallback_fuzzy |-> <<>>]
        ELSE LET semantics == SemanticLoop(prods, norms.dists, Take(order, k), md)
             IN  [raised |-> FALSE,
                  semantics |-> semantics,
                  fallback_fuzzy |-> IF FallbackNeeded(semantics)
                                     THEN FuzzyFallback(prods, corrected, k)
                                     ELSE <<>>]

TryWithoutExcept(body) ==
    [outcome |-> IF body.raised THEN "raised" ELSE "returned",
     error_logged |-> FALSE,
     semantics |-> body.semantics,
     fallback_fuzzy |-> body.fallback_fuzzy]

\* try ... except Exception: the error is logged and the results dict is
\* returned as it is.
TryExcept(body) ==
    [outcome |-> "returned",
     error_logged |-> body.raised,
     semantics |-> body.semantics,
     fallback_fuzzy |-> body.fallback_fuzzy]

\* The orders np.argsort can return in a call, <<>> when it is not reached.
SortChoices(prods, vecs, e) ==
    IF \E i \in 1..Len(prods) : IsNone(prods[i].description) THEN {<<>>}
    ELSE IF e.status # "ok" \/ Norm(Subtract(vecs, e.v)).raised THEN {<<>>}
    ELSE ArgSorts(Norm(Subtract(vecs, e.v)).dists)

\* SearchSimilarProduct.search_similar_products(description_input)
SearchSimilarProducts(prods, vecs, k, md, description_input, e, order) ==
    LET stripped == Strip(description_input)
        corrected == CorrectInput(prods, stripped)
    IN  IF corrected.raised
        THEN [outcome |-> "raised", error_logged |-> FALSE,
              input |-> description_input,
              embed |-> [status |-> "not_called", v |-> <<>>],
              order |-> <<>>,
              results |-> [consult_original |-> <<>>, consult_used |-> <<>>,
                           semantics |-> <<>>, fallback_fuzzy |-> <<>>]]
        ELSE LET done == TryExcept(TryBody(prods, vecs, k, md,
                                           corrected.value, e, order))
             IN  [outcome |-> done.outcome, error_logged |-> done.error_logged,
                  input |-> description_input, embed |-> e, order |-> order,
                  results |-> [consult_original |-> stripped,
                               consult_used |-> corrected.value,
                               semantics |-> done.semantics,
                               fallback_fuzzy |-> done.fallback_fuzzy]]

(* ------------------------------ inputs --------------------------------- *)
\* Descriptions a row of embeddings_products can hold: NULL, "ab", "ba".
DescriptionPool == {NoneValue, <<97, 98>>, <<98, 97>>}

\* Queries a caller passes: "", " a", "ab", "bb", "b a".
QueryPool == {<<>>, <<32, 97>>, <<97, 98>>, <<98, 98>>, <<98, 32, 97>>}

Dims == {1, 2}

\* Vectors a row can hold (np.frombuffer of its BLOB).
VectorPool == {<<0>>, <<1>>, <<0, 0>>, <<1, 0>>}

StoredVectors(d) == {v \in VectorPool : Len(v) = d}

\* Values of the constructor's minimal_distance.
Thresholds == {1, 2}

\* Outcomes of self.embedding.embed_query: an exception, or a vector of any
\* length the provider's model produces.
EmbedOutcomes ==
    {[status |-> "failed", v |-> <<>>]}
    \cup {[status |-> "ok", v |-> v] : v \in VectorPool \cup {<<0, 1>>, <<1, 0, 1>>}}

NoCall ==
    [outcome |-> "none", error_logged |-> FALSE, input |-> <<>>,
     embed |-> [status |-> "not_called", v |-> <<>>], order |-> <<>>,
     results |-> [consult_original |-> <<>>, consult_used |-> <<>>,
                  semantics |-> <<>>, fallback_fuzzy |-> <<>>]]

NoNorm == [raw |-> <<>>, raised |-> FALSE, value |-> <<>>, done |-> FALSE]

\* The row fetched at position i: (id, code, description, vector).
Product(i, description) ==
    [id |-> 10 + i, code |-> 200 + i, description |-> description]

(* ------------------------------ actions -------------------------------- *)
NoLookup == [done |-> FALSE]

\* main.py is not running.
NoAgent == [at |-> "off"]

\* gradio_app.py is not imported.
NoBridge == [on |-> FALSE]

Init ==
    /\ pc = "start"
    /\ load = "none"
    /\ products = <<>>
    /\ vectors = <<>>
    /\ top_k = 0
    /\ minimal_distance = 0
    /\ call = NoCall
    /\ norm = NoNorm
    /\ prev = NoCall
    /\ inflight = <<>>
    /\ invoices = {}
    /\ lookup = NoLookup
    /\ agent = NoAgent
    /\ bridge = NoBridge

\* SearchSimilarProduct.__init__ up to the call of _load_embeddings: the
\* connection and the embeddings client are set up, top_k and
\* minimal_distance are stored, and the load starts with two empty lists.
Construct ==
    /\ pc = "start"
    /\ \E k \in 0..MaxTopK, md \in Thresholds :
          /\ top_k' = k
          /\ minimal_distance' = md
    /\ products' = <<>>
    /\ vectors' = <<>>
    /\ pc' = "loading"
    /\ load' = "loading"
    /\ UNCHANGED <<call, norm, aux>>

\* One iteration of the loop over cursor.fetchall(): the row is appended to
\* self.vectors and self.products.  All rows hold vectors of one length.
LoadRow ==
    /\ pc = "loading"
    /\ Len(products) < MaxRows
    /\ \E description \in DescriptionPool,
          v \in UNION {StoredVectors(d) : d \in Dims} :
          /\ vectors # <<>> => Len(v) = Len(vectors[1])
          /\ products' = Append(products, Product(Len(products) + 1, description))
          /\ vectors' = Append(vectors, v)
    /\ UNCHANGED <<pc, load, top_k, minimal_distance, call, norm, aux>>

\* The cursor is exhausted: self.vectors becomes the matrix, __init__
\* returns and the module-level name sercher is bound to the instance.
LoadDone ==
    /\ pc = "loading"
    /\ pc' = "ready"
    /\ load' = "complete"
    /\ UNCHANGED <<products, vectors, top_k, minimal_distance, call, norm, aux>>

OnLoadErrorSwallowed == "ready"

\* except Exception: logger.error(...); raise
OnLoadError == "failed"

\* The cursor or the read of a BLOB fails during the load: _load_embeddings
\* logs and re-raises, with the rows appended so far left in the two lists.
LoadFails ==
    /\ pc = "loading"
    /\ pc' = OnLoadError
    /\ load' = "failed"
    /\ UNCHANGED <<products, vectors, top_k, minimal_distance, call, norm, aux>>

\* __init__ re-raises a failure of the connection or of the embeddings
\* client: no instance exists.
ConstructFails ==
    /\ pc = "start"
    /\ pc' = "failed"
    /\ UNCHANGED <<load, products, vectors, top_k, minimal_distance, call, norm, aux>>

StoreReversedBySearch(seq) == [i \in 1..Len(seq) |-> seq[Len(seq) + 1 - i]]

\* search_similar_products and _correct_input only read self.products and
\* self.vectors: the call leaves both as they were.
StoreAfterSearch(seq) == seq

PublishedEarly(p) == p \in {"loading", "ready"}

\* The tools are served by mcp.run, which runs after the module-level
\* sercher = SearchSimilarProduct() has returned.
Published(p) == p = "ready"

\* The tool search_vectorized_product is called: one call of
\* search_similar_products on the constructed instance.
Search ==
    /\ Published(pc)
    /\ \E q \in QueryPool, e \in EmbedOutcomes :
         \E order \in SortChoices(products, vectors, e) :
            call' = SearchSimilarProducts(products, vectors, top_k,
                                          minimal_distance, q, e, order)
    /\ products' = StoreAfterSearch(products)
    /\ vectors' = StoreAfterSearch(vectors)
    /\ pc' = "called"
    /\ UNCHANGED <<load, top_k, minimal_distance, norm, aux>>

\* The tool hands the result (or the exception) to its caller; the instance
\* serves the next call.
ToolReturn ==
    /\ pc = "called"
    /\ pc' = "ready"
    /\ call' = NoCall
    /\ UNCHANGED <<load, products, vectors, top_k, minimal_distance, norm, aux>>

(* ------------- the input normalizer as a pure function ---------------- *)
\* Descriptions of the vocabulary: "ab", "ba", "abc", "abcyy".
VocabularyPool ==
    {<<97, 98>>, <<98, 97>>, <<97, 98, 99>>, <<97, 98, 99, 121, 121>>}

\* Raw queries: "a", "ab", "bb", "abc", "abcxx".
RawPool ==
    {<<97>>, <<97, 98>>, <<98, 98>>, <<97, 98, 99>>, <<97, 98, 99, 120, 120>>}

InitNormalizer ==
    /\ pc = "normalizer"
    /\ load = "complete"
    /\ prev = NoCall
    /\ inflight = <<>>
    /\ invoices = {}
    /\ lookup = NoLookup
    /\ agent = NoAgent
    /\ bridge = NoBridge
    /\ \E n \in 0..MaxVocab :
          \E descs \in [1..n -> VocabularyPool] :
             products = [i \in 1..n |-> Product(i, descs[i])]
    /\ vectors = <<>>
    /\ top_k = 0
    /\ minimal_distance = 0
    /\ call = NoCall
    /\ norm = NoNorm

\* One application of _correct_input to a raw query.
Normalize ==
    /\ pc = "normalizer"
    /\ \E raw \in RawPool :
          LET out == CorrectInput(products, raw)
          IN  norm' = [raw |-> raw, raised |-> out.raised,
                       value |-> out.value, done |-> TRUE]
    /\ UNCHANGED <<pc, load, products, vectors, top_k, minimal_distance, call, aux>>

NextNormalizer == Normalize

SpecNormalizer == InitNormalizer /\ [][NextNormalizer]_vars

(* ------------------- two calls with the same query --------------------- *)
\* A constructed instance that has served no call yet.
InitRepeat ==
    /\ pc = "ready"
    /\ load = "complete"
    /\ \E n \in 0..MaxRows :
          \E descs \in [1..n -> DescriptionPool], vecs \in [1..n -> StoredVectors(1)] :
             /\ products = [i \in 1..n |-> Product(i, descs[i])]
             /\ vectors = vecs
    /\ top_k \in 0..MaxTopK
    /\ minimal_distance \in Thresholds
    /\ call = NoCall
    /\ norm = NoNorm
    /\ prev = NoCall
    /\ inflight = <<>>
    /\ invoices = {}
    /\ lookup = NoLookup
    /\ agent = NoAgent
    /\ bridge = NoBridge

\* The first call of search_similar_products.
SearchOnce ==
    /\ pc = "ready"
    /\ \E q \in QueryPool, e \in EmbedOutcomes :
         \E order \in SortChoices(products, vectors, e) :
            call' = SearchSimilarProducts(products, vectors, top_k,
                                          minimal_distance, q, e, order)
    /\ products' = StoreAfterSearch(products)
    /\ vectors' = StoreAfterSearch(vectors)
    /\ pc' = "once"
    /\ UNCHANGED <<load, top_k, minimal_distance, norm, aux>>

\* The first call has returned and the caller calls again with the same
\* query; embed_query answers as it did for this text, and np.argsort, a
\* function of its argument, orders equal distances as it did before.
SearchAgain ==
    /\ pc = "once"
    /\ prev' = call
    /\ call' = SearchSimilarProducts(products, vectors, top_k, minimal_distance,
                                     call.input, call.embed, call.order)
    /\ products' = StoreAfterSearch(products)
    /\ vectors' = StoreAfterSearch(vectors)
    /\ pc' = "repeated"
    /\ UNCHANGED <<load, top_k, minimal_distance, norm, inflight, invoices, lookup, agent, bridge>>

NextRepeat == SearchOnce \/ SearchAgain

SpecRepeat == InitRepeat /\ [][NextRepeat]_vars

(* ------------------------- concurrent calls ----------------------------- *)
Callers == {1, 2}

\* Queries of the concurrent callers: " a", "ab", "bb".
ConcurrentQueries == {<<32, 97>>, <<97, 98>>, <<98, 98>>}

\* Answers of embed_query to the concurrent callers.
ConcurrentEmbeds ==
    {[status |-> "failed", v |-> <<>>]}
    \cup {[status |-> "ok", v |-> v] : v \in StoredVectors(1)}

\* The local variables of a call before its first statement.
NoFrame ==
    [description_corrected |-> <<>>,
     consult_emb |-> [status |-> "not_called", v |-> <<>>],
     results |-> NoCall.results]

NoReturn == [outcome |-> "none", results |-> NoCall.results]

\* A caller that has not called yet: what it passed (input), the store at
\* the time of its call (seen), what the provider answered to it (embed),
\* the order np.argsort gave it (order), its local variables (frame) and
\* what it got back (returned).
Idle ==
    [phase |-> "idle", input |-> <<>>,
     seen |-> [products |-> <<>>, vectors |-> <<>>],
     embed |-> NoFrame.consult_emb,
     order |-> <<>>, frame |-> NoFrame, returned |-> NoReturn]

\* A constructed instance, with rows whose description is not NULL and
\* whose vectors are (1), (0), (1), ..., and callers that have not called
\* yet.
InitConcurrent ==
    /\ pc = "ready"
    /\ load = "complete"
    /\ \E n \in 0..MaxRows :
          \E descs \in [1..n -> DescriptionPool \ {NoneValue}] :
             /\ products = [i \in 1..n |-> Product(i, descs[i])]
             /\ vectors = [i \in 1..n |-> <<i % 2>>]
    /\ top_k \in 0..MaxTopK
    /\ minimal_distance = 1
    /\ call = NoCall
    /\ norm = NoNorm
    /\ prev = NoCall
    /\ inflight = [c \in Callers |-> Idle]
    /\ invoices = {}
    /\ lookup = NoLookup
    /\ agent = NoAgent
    /\ bridge = NoBridge

OneFrame(c) == 1

\* description_input, description_corrected, results and consult_emb are
\* local variables: every call has its own.
Frame(c) == c

\* Caller c enters search_similar_products: strip, _correct_input and the
\* results dict with consult_original and consult_used.
Enter(c) ==
    /\ inflight[c].phase = "idle"
    /\ \E q \in ConcurrentQueries :
         LET stripped == Strip(q)
             corrected == CorrectInput(products, stripped)
             entered == [inflight EXCEPT
                           ![c].input = q,
                           ![c].seen = [products |-> products,
                                        vectors |-> vectors]]
         IN  inflight' =
                IF corrected.raised
                THEN [entered EXCEPT
                        ![c].phase = "done",
                        ![c].returned = [outcome |-> "raised",
                                         results |-> NoCall.results]]
                ELSE [[entered EXCEPT ![c].phase = "normalized"] EXCEPT
                        ![Frame(c)].frame =
                            [description_corrected |-> corrected.value,
                             consult_emb |-> NoFrame.consult_emb,
                             results |-> [consult_original |-> stripped,
                                          consult_used |-> corrected.value,
                                          semantics |-> <<>>,
                                          fallback_fuzzy |-> <<>>]]]
    /\ UNCHANGED <<pc, load, products, vectors, top_k, minimal_distance,
                   call, norm, prev, invoices, lookup, agent, bridge>>

\* embed_query answers caller c (a vector or an exception).
Embed(c) ==
    /\ inflight[c].phase = "normalized"
    /\ \E e \in ConcurrentEmbeds :
         inflight' = [[inflight EXCEPT ![c].phase = "embedded", ![c].embed = e]
                         EXCEPT ![Frame(c)].frame.consult_emb = e]
    /\ UNCHANGED <<pc, load, products, vectors, top_k, minimal_distance,
                   call, norm, prev, invoices, lookup, agent, bridge>>

\* The rest of the call of caller c: distances, np.argsort, the threshold
\* loop, the fuzzy fallback, the except clause and return results.
Rank(c) ==
    /\ inflight[c].phase = "embedded"
    /\ LET f == inflight[Frame(c)].frame
       IN  \E order \in SortChoices(products, vectors, f.consult_emb) :
              LET done == TryExcept(TryBody(products, vectors, top_k,
                                            minimal_distance,
                                            f.description_corrected,
                                            f.consult_emb, order))
              IN  inflight' =
                     [inflight EXCEPT
                        ![c].phase = "done",
                        ![c].order = order,
                        ![c].returned =
                            [outcome |-> done.outcome,
                             results |->
                                [consult_original |-> f.results.consult_original,
                                 consult_used |-> f.results.consult_used,
                                 semantics |-> done.semantics,
                                 fallback_fuzzy |-> done.fallback_fuzzy]]]
    /\ products' = StoreAfterSearch(products)
    /\ vectors' = StoreAfterSearch(vectors)
    /\ UNCHANGED <<pc, load, top_k, minimal_distance, call, norm, prev,
                   invoices, lookup, agent, bridge>>

NextConcurrent == \E c \in Callers : Enter(c) \/ Embed(c) \/ Rank(c)

SpecConcurrent == InitConcurrent /\ [][NextConcurrent]_vars

(* -------------------- search_invoices_by_criteria ----------------------- *)
\* The default of the parameter margin, 0.05, in hundredths.
MarginPercent == 5

\* Rows of invoice JOIN item_invoice: ("Ab", "SP", "E1", 100),
\* ("None", "RJ", "E2", 104), ("b", "sp", "E1", 200).
InvoiceRowPool ==
    {[no_invoice |-> 1, name_customer |-> <<65, 98>>, state |-> <<83, 80>>,
      code_ean |-> <<69, 49>>, value_unitary |-> 100],
     [no_invoice |-> 2, name_customer |-> <<78, 111, 110, 101>>,
      state |-> <<82, 74>>, code_ean |-> <<69, 50>>, value_unitary |-> 104],
     [no_invoice |-> 3, name_customer |-> <<98>>, state |-> <<115, 112>>,
      code_ean |-> <<69, 49>>, value_unitary |-> 200]}

\* Arguments of the tool; NoneValue is the default None of a parameter.
CustomerPool == {NoneValue, <<97>>, <<66>>}
StatePool == {NoneValue, <<115, 112>>, <<82, 74>>}
EanPool == {NoneValue, <<69, 49>>, <<69, 50>>}

NoPrice == [given |-> FALSE, value |-> 0]

PricePool == {NoPrice} \cup {[given |-> TRUE, value |-> v] : v \in {100, 200}}

\* SQL LOWER on ASCII letters.
Lower(s) == [i \in 1..Len(s) |-> IF s[i] \in 65..90 THEN s[i] + 32 ELSE s[i]]

Contains(s, sub) ==
    \E i \in 0..(Len(s) - Len(sub)) : \A k \in 1..Len(sub) : s[i + k] = sub[k]

\* str(customer) inside the f-string: None is formatted as "None".
FormatValue(customer) ==
    IF IsNone(customer) THEN <<78, 111, 110, 101>> ELSE customer

\* LOWER(nf.name_customer) LIKE LOWER(:customer) with :customer bound to
\* f"%{customer}%" (the values of the pools hold no % and no _).
CustomerConditionAlways(row, customer) ==
    Contains(Lower(row.name_customer), Lower(FormatValue(customer)))

\* LOWER(nf.state) = LOWER(:state); a comparison with NULL is not true.
StateConditionAlways(row, state) ==
    ~IsNone(state) /\ Lower(row.state) = Lower(state)

\* inf.code_ean = :ean; a comparison with NULL is not true.
EanConditionAlways(row, ean) ==
    ~IsNone(ean) /\ row.code_ean = ean

\* if price is not None: value_unitary BETWEEN price * (1 - margin) AND
\* price * (1 + margin), in hundredths.
PriceCondition(row, price) ==
    price.given =>
        /\ 100 * row.value_unitary >= price.value * (100 - MarginPercent)
        /\ 100 * row.value_unitary <= price.value * (100 + MarginPercent)

\* The WHERE clause the tool builds.
Where(row, customer, state, price, ean) ==
    /\ CustomerConditionAlways(row, customer)
    /\ StateConditionAlways(row, state)
    /\ EanConditionAlways(row, ean)
    /\ PriceCondition(row, price)

\* execute_query: the rows of the cursor, or [] when the database fails.
ExecuteQuery(rows, db) == IF db = "ok" THEN rows ELSE {}

\* The server with the tables filled and no lookup in progress.
InitInvoices ==
    /\ pc = "serving"
    /\ load = "complete"
    /\ products = <<>>
    /\ vectors = <<>>
    /\ top_k = 0
    /\ minimal_distance = 1
    /\ call = NoCall
    /\ norm = NoNorm
    /\ prev = NoCall
    /\ inflight = <<>>
    /\ invoices \in SUBSET InvoiceRowPool
    /\ lookup = NoLookup
    /\ agent = NoAgent
    /\ bridge = NoBridge

\* The tool search_invoices_by_criteria is called.
SearchInvoices ==
    /\ pc = "serving"
    /\ ~lookup.done
    /\ \E customer \in CustomerPool, state \in StatePool, price \in PricePool,
          ean \in EanPool, db \in {"ok", "failed"} :
          lookup' =
             [done |-> TRUE, customer |-> customer, state |-> state,
              price |-> price, ean |-> ean, db |-> db,
              rows |-> ExecuteQuery({row \in invoices :
                                        Where(row, customer, state, price, ean)},
                                    db)]
    /\ UNCHANGED <<pc, load, products, vectors, top_k, minimal_distance, call,
                   norm, prev, inflight, invoices, agent, bridge>>

\* The list of dicts is handed to the caller.
InvoicesReturn ==
    /\ pc = "serving"
    /\ lookup.done
    /\ lookup' = NoLookup
    /\ UNCHANGED <<pc, load, products, vectors, top_k, minimal_distance, call,
                   norm, prev, inflight, invoices, agent, bridge>>

NextInvoices == SearchInvoices \/ InvoicesReturn

SpecInvoices == InitInvoices /\ [][NextInvoices]_vars

(* ---------------------- the query loop of main.py ----------------------- *)
\* Lines read by input("You: "): "Quit", "", " ", "a", "b".
AgentQueryPool == {<<81, 117, 105, 116>>, <<>>, <<32>>, <<97>>, <<98>>}

\* The content of the last message of a result: the str "ok", the list
\* [{"text": "o"}, "k"], the list [{"type": "x"}].
ContentPool ==
    {[kind |-> "str", text |-> <<111, 107>>, parts |-> <<>>],
     [kind |-> "list", text |-> <<>>,
      parts |-> <<[dict |-> TRUE, text |-> <<111>>],
                  [dict |-> FALSE, text |-> <<107>>]>>],
     [kind |-> "list", text |-> <<>>, parts |-> <<[dict |-> TRUE, text |-> <<>>]>>]}

\* "".join(part.get("text", "") if isinstance(part, dict) else str(part))
RECURSIVE JoinParts(_)
JoinParts(parts) ==
    IF parts = <<>> THEN <<>> ELSE Head(parts).text \o JoinParts(Tail(parts))

\* response_text from response_content
ResponseText(content) ==
    IF content.kind = "list" THEN JoinParts(content.parts) ELSE content.text

\* What agent_executor.ainvoke does: it raises, or it returns a result
\* without messages, or a result whose last message has a content.
InvokeOutcomes ==
    {[kind |-> "raises", content |-> <<>>], [kind |-> "no_messages", content |-> <<>>]}
    \cup {[kind |-> "result", content |-> c] : c \in ContentPool}

\* query.lower() in ["quit", "exit"]
IsQuit(query) ==
    Lower(query) \in {<<113, 117, 105, 116>>, <<101, 120, 105, 116>>}

BeginLine == [kind |-> "ASSIST_BEGIN", text |-> <<>>]
EndLine == [kind |-> "ASSIST_END", text |-> <<>>]
ErrorLine == [kind |-> "Error", text |-> <<>>]
TextLine(text) == [kind |-> "text", text |-> text]

\* main() has printed READY and is about to call input() for the first
\* time: memory_state = MemoryState().
InitAgent ==
    /\ pc = "agent"
    /\ load = "none"
    /\ products = <<>>
    /\ vectors = <<>>
    /\ top_k = 0
    /\ minimal_distance = 1
    /\ call = NoCall
    /\ norm = NoNorm
    /\ prev = NoCall
    /\ inflight = <<>>
    /\ invoices = {}
    /\ lookup = NoLookup
    /\ agent = [at |-> "input", messages |-> <<>>, query |-> <<>>,
                processed |-> FALSE, invoked |-> FALSE, passed |-> <<>>,
                response |-> <<>>, printed |-> <<>>]
    /\ bridge = NoBridge

AgentUnchanged ==
    UNCHANGED <<pc, load, products, vectors, top_k, minimal_distance, call, norm,
                prev, inflight, invoices, lookup, bridge>>

\* query = input("You: ") up to memory_state.messages.append(...): quit and
\* exit leave the loop, a blank line is skipped.  printed restarts with every
\* line read.
ReadQuery ==
    /\ agent.at = "input"
    /\ \E query \in AgentQueryPool :
         agent' =
            IF IsQuit(query)
            THEN [agent EXCEPT !.at = "exited", !.query = query,
                               !.processed = FALSE, !.invoked = FALSE, !.printed = <<>>]
            ELSE IF Strip(query) = <<>>
            THEN [agent EXCEPT !.query = query, !.processed = FALSE, !.invoked = FALSE,
                               !.printed = <<>>]
            ELSE [agent EXCEPT !.at = "invoke", !.query = query,
                               !.processed = TRUE, !.invoked = FALSE,
                               !.printed = <<>>,
                               !.messages = Append(@, query)]
    /\ Len(agent.messages) < MaxPending
    /\ AgentUnchanged

\* await agent_executor.ainvoke({"messages": memory_state.messages}) and the
\* statements up to print("ASSIST_END"); an exception goes to the except
\* clause, which prints "Error:".
Invoke ==
    /\ agent.at = "invoke"
    /\ \E outcome \in InvokeOutcomes :
         agent' =
            IF outcome.kind = "raises"
            THEN [agent EXCEPT !.at = "input", !.invoked = TRUE,
                               !.passed = agent.messages,
                               !.printed = <<ErrorLine>>]
            ELSE IF outcome.kind = "no_messages"
            THEN [agent EXCEPT !.at = "input", !.invoked = TRUE,
                               !.passed = agent.messages,
                               !.messages = <<>>,
                               !.printed = <<ErrorLine>>]
            ELSE [agent EXCEPT !.at = "trace", !.invoked = TRUE,
                               !.passed = agent.messages,
                               !.messages = <<>>,
                               !.response = ResponseText(outcome.content),
                               !.printed = <<BeginLine,
                                             TextLine(ResponseText(outcome.content)),
                                             EndLine>>]
    /\ AgentUnchanged

\* prompt.format_messages() and the tracing span: they end normally or an
\* exception goes to the except clause.
Trace ==
    /\ agent.at = "trace"
    /\ \E raised \in BOOLEAN :
         agent' = [agent EXCEPT
                     !.at = "input",
                     !.printed = IF raised THEN Append(@, ErrorLine) ELSE @]
    /\ AgentUnchanged

NextAgent == ReadQuery \/ Invoke \/ Trace

SpecAgent == InitAgent /\ [][NextAgent]_vars

(* ------------------- the Gradio bridge (gradio_app.py) ------------------ *)
ReadyLine == [kind |-> "READY", msg |-> 0]
BlockBegin == [kind |-> "ASSIST_BEGIN", msg |-> 0]
BlockEnd == [kind |-> "ASSIST_END", msg |-> 0]
ErrorOutput == [kind |-> "Error", msg |-> 0]

\* The response text main.py prints in answer to message m.
AnswerText(m) == [kind |-> "text", msg |-> m]

\* A process started by subprocess.Popen with its reader thread: the
\* messages written to its stdin and not yet answered, the lines it has
\* printed and the reader has not read yet.
FreshProcess ==
    [alive |-> TRUE, ready |-> FALSE, stdin |-> <<>>, pipe |-> <<>>,
     reader |-> "running"]

NotWaiting ==
    [active |-> FALSE, msg |-> 0, collecting_block |-> FALSE,
     block_lines |-> <<>>, buffer_lines |-> <<>>]

NoReply == [msg |-> 0, kind |-> "none", lines |-> <<>>]

\* The module has been imported: start_agent_process() has run once.
InitBridge ==
    /\ pc = "bridge"
    /\ load = "none"
    /\ products = <<>>
    /\ vectors = <<>>
    /\ top_k = 0
    /\ minimal_distance = 1
    /\ call = NoCall
    /\ norm = NoNorm
    /\ prev = NoCall
    /\ inflight = <<>>
    /\ invoices = {}
    /\ lookup = NoLookup
    /\ agent = NoAgent
    /\ bridge = [on |-> TRUE, proc |-> 1, procs |-> <<FreshProcess>>,
                 agent_status |-> "Initializing", stdout_queue |-> <<>>,
                 sent |-> 0, wait |-> NotWaiting, reply |-> NoReply,
                 restart |-> "idle"]

BridgeUnchanged ==
    UNCHANGED <<pc, load, products, vectors, top_k, minimal_distance, call, norm,
                prev, inflight, invoices, lookup, agent>>

\* Process g prints READY (main.py has built its agent).
AgentReady(g) ==
    /\ g <= Len(bridge.procs)
    /\ bridge.procs[g].alive
    /\ ~bridge.procs[g].ready
    /\ bridge' = [bridge EXCEPT !.procs[g].ready = TRUE,
                                !.procs[g].pipe = Append(@, ReadyLine)]
    /\ BridgeUnchanged

\* Process g reads the next line of its stdin and prints its answer: the
\* block, or the Error line when the invocation failed.
AgentAnswer(g) ==
    /\ g <= Len(bridge.procs)
    /\ bridge.procs[g].alive
    /\ bridge.procs[g].ready
    /\ bridge.procs[g].stdin # <<>>
    /\ \E failed \in BOOLEAN :
         LET m == Head(bridge.procs[g].stdin)
             out == IF failed THEN <<ErrorOutput>>
                    ELSE <<BlockBegin, AnswerText(m), BlockEnd>>
         IN  bridge' = [bridge EXCEPT !.procs[g].stdin = Tail(@),
                                      !.procs[g].pipe = @ \o out]
    /\ BridgeUnchanged

\* The current process ends on its own.
AgentDies(g) ==
    /\ g <= Len(bridge.procs)
    /\ bridge.proc = g
    /\ bridge.procs[g].alive
    /\ bridge' = [bridge EXCEPT !.procs[g].alive = FALSE]
    /\ BridgeUnchanged

\* _reader_thread of process g, one iteration: a line is read, READY sets
\* agent_status, the line is put on stdout_queue.
ReaderPut(g) ==
    /\ g <= Len(bridge.procs)
    /\ bridge.procs[g].reader = "running"
    /\ bridge.procs[g].pipe # <<>>
    /\ LET line == Head(bridge.procs[g].pipe)
       IN  bridge' = [bridge EXCEPT
                        !.procs[g].pipe = Tail(@),
                        !.agent_status = IF line.kind = "READY" THEN "Active" ELSE @,
                        !.stdout_queue = Append(@, line)]
    /\ BridgeUnchanged

\* _reader_thread of process g after its loop: the stream is closed.
ReaderEnds(g) ==
    /\ g <= Len(bridge.procs)
    /\ bridge.procs[g].reader = "running"
    /\ bridge.procs[g].pipe = <<>>
    /\ ~bridge.procs[g].alive
    /\ bridge' = [bridge EXCEPT !.procs[g].reader = "ended",
                                !.agent_status = "InActive"]
    /\ BridgeUnchanged

\* send_message up to the wait loop, for a message that is not blank.
SendMessage ==
    /\ ~bridge.wait.active
    /\ bridge.sent < MaxMessages
    /\ LET m == bridge.sent + 1
           g == bridge.proc
       IN  bridge' =
              IF bridge.agent_status # "Active"
              THEN [bridge EXCEPT !.sent = m,
                      !.reply = [msg |-> m, kind |-> "not_ready", lines |-> <<>>]]
              ELSE IF g = 0
              THEN [bridge EXCEPT !.sent = m,
                      !.reply = [msg |-> m, kind |-> "not_available", lines |-> <<>>]]
              ELSE IF ~bridge.procs[g].alive
              THEN [bridge EXCEPT !.sent = m,
                      !.reply = [msg |-> m, kind |-> "failed_to_send", lines |-> <<>>]]
              ELSE [bridge EXCEPT !.sent = m,
                      !.procs[g].stdin = Append(@, m),
                      !.wait = [NotWaiting EXCEPT !.active = TRUE, !.msg = m]]
    /\ BridgeUnchanged

\* One iteration of the wait loop with a line taken from stdout_queue.  No
\* line main.py prints outside a block starts with "Assist:".
Poll ==
    /\ bridge.wait.active
    /\ bridge.stdout_queue # <<>>
    /\ LET line == Head(bridge.stdout_queue)
           w == bridge.wait
           taken == [bridge EXCEPT !.stdout_queue = Tail(@)]
       IN  bridge' =
              IF line.kind = "READY" THEN taken
              ELSE IF line.kind = "ASSIST_BEGIN"
              THEN [taken EXCEPT !.wait.collecting_block = TRUE,
                                 !.wait.block_lines = <<>>]
              ELSE IF w.collecting_block /\ line.kind = "ASSIST_END"
              THEN [taken EXCEPT !.wait = NotWaiting,
                                 !.reply = [msg |-> w.msg, kind |-> "block",
                                            lines |-> w.block_lines]]
              ELSE IF w.collecting_block
              THEN [taken EXCEPT !.wait.block_lines = Append(@, line)]
              ELSE [taken EXCEPT !.wait.buffer_lines = Append(@, line)]
    /\ BridgeUnchanged

\* The wait loop ends after timeout_s without a response; it is taken here
\* only when stdout_queue is empty.
Timeout ==
    /\ bridge.wait.active
    /\ bridge.stdout_queue = <<>>
    /\ LET buf == bridge.wait.buffer_lines
       IN  bridge' = [bridge EXCEPT
                        !.wait = NotWaiting,
                        !.reply = [msg |-> bridge.wait.msg, kind |-> "no_assist",
                                   lines |-> SubSeq(buf, Len(buf) - Min2(5, Len(buf)) + 1,
                                                    Len(buf))]]
    /\ BridgeUnchanged

\* _restart, first half: stop_agent_process().
StopAgent ==
    /\ bridge.restart = "idle"
    /\ Len(bridge.procs) < MaxProcs
    /\ LET g == bridge.proc
       IN  bridge' =
              IF g = 0 THEN [bridge EXCEPT !.restart = "stopped"]
              ELSE [bridge EXCEPT !.restart = "stopped",
                                  !.procs[g].alive = FALSE,
                                  !.proc = 0,
                                  !.agent_status = "Inactive"]
    /\ BridgeUnchanged

\* _restart, second half: start_agent_process().
StartAgent ==
    /\ bridge.restart = "stopped"
    /\ bridge' = [bridge EXCEPT !.restart = "idle",
                                !.agent_status = "Initializing",
                                !.procs = Append(@, FreshProcess),
                                !.proc = Len(bridge.procs) + 1]
    /\ BridgeUnchanged

NextBridge ==
    \/ \E g \in 1..MaxProcs :
          AgentReady(g) \/ AgentAnswer(g) \/ AgentDies(g) \/ ReaderPut(g) \/ ReaderEnds(g)
    \/ SendMessage
    \/ Poll
    \/ Timeout
    \/ StopAgent
    \/ StartAgent

SpecBridge == InitBridge /\ [][NextBridge]_vars

Next ==
    \/ Construct
    \/ ConstructFails
    \/ LoadRow
    \/ LoadDone
    \/ LoadFails
    \/ Search
    \/ ToolReturn

Spec == Init /\ [][Next]_vars

(* ---------------------------- properties ------------------------------- *)
Returned == pc = "called" /\ call.outcome = "returned"

Semantics == call.results.semantics
Fuzzy == call.results.fallback_fuzzy

\* The position in the store of the record an entry was built from.
RowOf(m) == CHOOSE i \in 1..Len(products) : products[i].id = m.id

\* The squared distance of store row i to the query vector of the call.
RowDist(i) == SumSquares(Subtract(vectors, call.embed.v).rows[i])

Under(i) == RowDist(i) < minimal_distance * minimal_distance

\* The embedding call succeeded with the dimensionality of the store.
NormalOperation ==
    /\ Returned
    /\ call.embed.status = "ok"
    /\ Len(products) >= 1
    /\ Len(call.embed.v) = Len(vectors[1])
    /\ top_k >= 1

C2_SemanticsSorted ==
    Returned =>
        \A n \in 1..(Len(Semantics) - 1) :
            RowDist(RowOf(Semantics[n])) <= RowDist(RowOf(Semantics[n + 1]))

\* Two matches at different distances, the nearer one stored second.
C2_Witness ==
    /\ Returned
    /\ Len(Semantics) = 2
    /\ RowOf(Semantics[1]) > RowOf(Semantics[2])
    /\ Semantics[1].distance < Semantics[2].distance

\* C3: fuzzy_matches is non-empty only if semantic_matches is empty.
C3_FuzzyOnlyWhenNoSemantic ==
    Returned => (Fuzzy # <<>> => Semantics = <<>>)

\* The fallback ran and filled fuzzy_matches with two records after the
\* semantic ranking had kept none of them.
C3_Witness ==
    /\ Returned
    /\ call.embed.status = "ok"
    /\ Len(Fuzzy) = 2

\* C4: under normal operation exactly one of the two lists is non-empty, and
\* when no record is under the threshold it is fuzzy_matches.
C4_ExactlyOneUnderNormalOperation ==
    NormalOperation =>
        /\ (Semantics = <<>>) # (Fuzzy = <<>>)
        /\ (\A i \in 1..Len(products) : ~Under(i)) =>
              (Semantics = <<>> /\ Len(Fuzzy) = Min2(top_k, Len(products)))

\* Normal operation, two records, none under the threshold.
C4_Witness ==
    /\ NormalOperation
    /\ Len(products) = 2
    /\ \A i \in 1..Len(products) : ~Under(i)
    /\ Fuzzy # <<>>

\* C5: when embed_query raises, the call returns with both lists empty: the
\* failure does not propagate and the fuzzy fallback is not run.
C5_ProviderFailureGivesEmptyResult ==
    (pc = "called" /\ call.embed.status = "failed") =>
        /\ call.outcome = "returned"
        /\ Semantics = <<>>
        /\ Fuzzy = <<>>

\* The provider failed on a non-empty store with top_k >= 1, where the
\* fallback would have had records to return.
C5_Witness ==
    /\ pc = "called"
    /\ call.embed.status = "failed"
    /\ call.error_logged
    /\ Len(products) >= 1
    /\ top_k >= 1

\* C8: with an empty store every call returns both lists empty and raises
\* nothing.
C8_EmptyStoreGivesEmptyResult ==
    (pc = "called" /\ Len(products) = 0) =>
        /\ call.outcome = "returned"
        /\ Semantics = <<>>
        /\ Fuzzy = <<>>

\* A call on the empty store whose embedding succeeded, so that the distance
\* computation on the empty matrix was reached.
C8_Witness ==
    /\ pc = "called"
    /\ Len(products) = 0
    /\ call.embed.status = "ok"
    /\ call.error_logged

\* C6: every call returns a result with its four fields and never raises to
\* its caller, also when the failure comes from the store data during the
\* input normalization.
C6_SearchNeverRaises ==
    pc = "called" => call.outcome = "returned"

\* C7: a query vector whose length differs from the store's makes the call
\* fail with an error the caller sees; it is not broadcast to the store's
\* dimensionality and does not end as an ordinary result.
C7_DimensionMismatchSurfaced ==
    (/\ pc = "called"
     /\ call.embed.status = "ok"
     /\ Len(products) >= 1
     /\ Len(call.embed.v) # Len(vectors[1]))
        => call.outcome = "raised"

Vocabulary == Descriptions(products)

\* The similarity ratio of vocabulary entry i to the raw query is >= 0.6.
Similar(i) ==
    LET r == Ratio(Vocabulary[i], norm.raw)
    IN  10 * r.num >= 6 * r.den

\* Vocabulary entry i has the highest ratio of the vocabulary.
Highest(i) ==
    \A j \in 1..Len(Vocabulary) :
        ~RatioLess(Ratio(Vocabulary[i], norm.raw), Ratio(Vocabulary[j], norm.raw))

\* C9: the normalizer returns the raw query when no vocabulary entry has a
\* ratio >= 0.6 to it and a member of the vocabulary otherwise; a ratio of
\* exactly 0.6 counts as a match.
C9_RawOrVocabularyMember ==
    norm.done =>
        /\ ~norm.raised
        /\ IF \E i \in 1..Len(Vocabulary) : Similar(i)
           THEN \E i \in 1..Len(Vocabulary) : Similar(i) /\ norm.value = Vocabulary[i]
           ELSE norm.value = norm.raw

\* The query was replaced by an entry whose ratio is exactly 0.6.
C9_Witness ==
    /\ norm.done
    /\ norm.value # norm.raw
    /\ \E i \in 1..Len(Vocabulary) :
          /\ norm.value = Vocabulary[i]
          /\ LET r == Ratio(Vocabulary[i], norm.raw) IN 10 * r.num = 6 * r.den

\* C10 as stated: the returned entry has the highest ratio, and of several
\* entries with that ratio the first in vocabulary order is returned.
C10_FirstOfHighest ==
    (norm.done /\ \E i \in 1..Len(Vocabulary) : Similar(i)) =>
        LET first == SetMin({i \in 1..Len(Vocabulary) : Highest(i)})
        IN  norm.value = Vocabulary[first]

\* C10 amended: the returned entry has the highest ratio, and of several
\* entries with that ratio the greatest in string order is returned.
C10_GreatestOfHighest ==
    (norm.done /\ \E i \in 1..Len(Vocabulary) : Similar(i)) =>
        \E i \in 1..Len(Vocabulary) :
            /\ norm.value = Vocabulary[i]
            /\ Highest(i)
            /\ \A j \in 1..Len(Vocabulary) :
                  Highest(j) => ~StrLess(Vocabulary[i], Vocabulary[j])

\* Two different entries share the highest ratio and the second one is
\* returned, while an entry of lower ratio is not at stake.
C10_Witness ==
    /\ norm.done
    /\ Len(Vocabulary) = 2
    /\ Vocabulary[1] # Vocabulary[2]
    /\ Similar(1)
    /\ Highest(1)
    /\ Highest(2)
    /\ norm.value = Vocabulary[2]

Original == call.results.consult_original
Used == call.results.consult_used

\* s is raw without its leading and trailing blanks.
IsStripped(s, raw) ==
    \E i, j \in 0..Len(raw) :
        /\ i + Len(s) + j = Len(raw)
        /\ \A k \in 1..i : raw[k] = 32
        /\ \A k \in 1..j : raw[Len(raw) - j + k] = 32
        /\ \A k \in 1..Len(s) : s[k] = raw[i + k]
        /\ s # <<>> => (s[1] # 32 /\ s[Len(s)] # 32)

\* Vocabulary entry i has a similarity ratio >= 0.6 to the query s.
SimilarTo(i, s) ==
    LET r == Ratio(products[i].description, s)
    IN  10 * r.num >= 6 * r.den

\* C11 as stated: query_original is the raw query exactly as the caller
\* passed it, and query_used is the normalizer's output for it.
C11_OriginalIsRawQuery ==
    Returned =>
        /\ Original = call.input
        /\ Used = CorrectInput(products, call.input).value

\* C11 amended: query_original is the raw query without its leading and
\* trailing whitespace and query_used is the normalizer's output for that
\* stripped query: it differs from query_original only when a vocabulary
\* entry with ratio >= 0.6 replaced the query, and it is query_original when
\* no entry has such a ratio.
C11_OriginalIsStrippedQuery ==
    Returned =>
        /\ IsStripped(Original, call.input)
        /\ Used = CorrectInput(products, Original).value
        /\ Used # Original =>
              \E i \in 1..Len(products) :
                  SimilarTo(i, Original) /\ Used = products[i].description
        /\ (\A i \in 1..Len(products) : ~SimilarTo(i, Original)) => Used = Original

\* A query passed with a leading blank that was stripped and then replaced
\* by a vocabulary entry.
C11_Witness ==
    /\ Returned
    /\ call.input # Original
    /\ Used # Original

\* C12: semantic matches of equal distance come in store order, and when
\* only one of two records of equal distance fits within top_k, it is the
\* one stored first.
C12_SemanticTiesInStoreOrder ==
    Returned =>
        /\ \A n, m \in 1..Len(Semantics) :
              (n < m /\ Semantics[n].distance = Semantics[m].distance)
                  => RowOf(Semantics[n]) < RowOf(Semantics[m])
        /\ \A m \in 1..Len(Semantics) :
              \A i \in 1..(RowOf(Semantics[m]) - 1) :
                  RowDist(i) = Semantics[m].distance
                      => \E n \in 1..Len(Semantics) : RowOf(Semantics[n]) = i

\* C13: the entries of fuzzy_matches are in non-increasing order of their
\* score, and every score lies between 0 and 100 (in hundredths: 0..10000).
C13_FuzzySortedInRange ==
    Returned =>
        /\ \A n \in 1..(Len(Fuzzy) - 1) :
              Fuzzy[n].score_fuzzy >= Fuzzy[n + 1].score_fuzzy
        /\ \A n \in 1..Len(Fuzzy) :
              Fuzzy[n].score_fuzzy >= 0 /\ Fuzzy[n].score_fuzzy <= 100 * 100

\* Two fuzzy matches of different score, the better one stored second.
C13_Witness ==
    /\ Returned
    /\ Len(Fuzzy) = 2
    /\ Fuzzy[1].score_fuzzy > Fuzzy[2].score_fuzzy
    /\ RowOf(Fuzzy[1]) > RowOf(Fuzzy[2])

\* The fuzzy score of store row i for the query the call used.
RowScore(i) == TokenSortRatio(Used, products[i].description)

\* Row i comes before row j in the descending order of scores that keeps
\* the store order of equal scores.
ScoreBefore(i, j) ==
    \/ RatioLess(RowScore(j), RowScore(i))
    \/ RatioEq(RowScore(i), RowScore(j)) /\ i < j

\* The fuzzy fallback ran in the call.
FallbackRan == Returned /\ ~call.error_logged /\ Semantics = <<>>

\* C14: when the fallback runs, fuzzy_matches is the first min(top_k, N)
\* records of the store sorted by descending score, records of equal
\* score in store order, also at the top_k cut-off.
C14_FuzzyIsStableTopK ==
    FallbackRan =>
        /\ Len(Fuzzy) = Min2(top_k, Len(products))
        /\ \A n \in 1..Len(Fuzzy) :
              /\ Fuzzy[n].id = products[RowOf(Fuzzy[n])].id
              /\ Fuzzy[n].code = products[RowOf(Fuzzy[n])].code
              /\ Fuzzy[n].description = products[RowOf(Fuzzy[n])].description
        /\ \A n \in 1..(Len(Fuzzy) - 1) :
              ScoreBefore(RowOf(Fuzzy[n]), RowOf(Fuzzy[n + 1]))
        /\ \A j \in 1..Len(products) :
              (\A n \in 1..Len(Fuzzy) : RowOf(Fuzzy[n]) # j)
                  => \A n \in 1..Len(Fuzzy) : ScoreBefore(RowOf(Fuzzy[n]), j)

\* Two records of equal score and top_k = 1: the one stored first is kept.
C14_Witness ==
    /\ FallbackRan
    /\ Len(products) = 2
    /\ top_k = 1
    /\ products[1].description # products[2].description
    /\ RatioEq(RowScore(1), RowScore(2))
    /\ Len(Fuzzy) = 1
    /\ RowOf(Fuzzy[1]) = 1

\* C16: a failure during the load is fatal: no instance exists afterwards,
\* so the server exposes no search tool and no call is ever served from the
\* rows that were loaded before the failure.
C16_LoadFailureIsFatal ==
    load = "failed" => (pc = "failed" /\ call = NoCall)

\* The load failed after a row had been appended.
C16_Witness ==
    /\ load = "failed"
    /\ Len(products) >= 1
    /\ pc = "failed"

\* C17: after a successful load the store is non-empty and all its vectors
\* have the same length.
C17_LoadedStoreNonEmptyUniform ==
    load = "complete" =>
        /\ Len(products) >= 1
        /\ \A i, j \in 1..Len(vectors) : Len(vectors[i]) = Len(vectors[j])

\* C19: a search call only runs on a store whose load has finished.
C19_NoSearchBeforeLoadCompletes ==
    pc = "called" => load = "complete"

\* A call served from a store of two rows after its load completed.
C19_Witness ==
    /\ pc = "called"
    /\ load = "complete"
    /\ Len(products) = 2
    /\ call.outcome = "returned"

Alone(c) ==
    LET r == SearchSimilarProducts(products, vectors, top_k, minimal_distance,
                                   inflight[c].input, inflight[c].embed,
                                   inflight[c].order)
    IN  [outcome |-> r.outcome, results |-> r.results]

\* C18: in every interleaving of the steps of concurrent calls, the store's
\* product list and vectors stay as every call found them when it started,
\* and a call that has finished has returned what it returns when it runs
\* alone.
C18_ConcurrentCallsIsolated ==
    \A c \in DOMAIN inflight :
        /\ inflight[c].phase # "idle" =>
               /\ products = inflight[c].seen.products
               /\ vectors = inflight[c].seen.vectors
        /\ inflight[c].phase = "done" => inflight[c].returned = Alone(c)

\* Caller 1 has finished with a semantic match while caller 2, which passed
\* another query and got another vector, is between its embedding and its
\* ranking.
C18_Witness ==
    /\ Len(inflight) = 2
    /\ inflight[1].phase = "done"
    /\ inflight[2].phase = "embedded"
    /\ inflight[1].input # inflight[2].input
    /\ inflight[1].embed # inflight[2].embed
    /\ inflight[2].embed.status = "ok"
    /\ Len(inflight[1].returned.results.semantics) = 1
    /\ inflight[2].frame.description_corrected # inflight[1].frame.description_corrected

\* A row satisfies the criteria the caller supplied: the customer's name
\* contains the given text, the state and the EAN are the given ones (all
\* without regard to case where the query lowers them), the unit price is
\* within the margin of the given price.
Satisfies(row, customer, state, price, ean) ==
    /\ ~IsNone(customer) => Contains(Lower(row.name_customer), Lower(customer))
    /\ ~IsNone(state) => Lower(row.state) = Lower(state)
    /\ ~IsNone(ean) => row.code_ean = ean
    /\ price.given =>
          /\ 100 * row.value_unitary >= price.value * (100 - MarginPercent)
          /\ 100 * row.value_unitary <= price.value * (100 + MarginPercent)

\* C20: an omitted criterion places no constraint: when the database
\* answers, the rows returned are exactly the invoice items that satisfy
\* the criteria the caller supplied.
C20_OmittedCriteriaUnconstrained ==
    (lookup.done /\ lookup.db = "ok") =>
        lookup.rows = {row \in invoices :
                          Satisfies(row, lookup.customer, lookup.state,
                                    lookup.price, lookup.ean)}

\* The call computed the distances and ran the loop over top_indices.
Ranked == Returned /\ call.embed.status = "ok" /\ ~call.error_logged

\* The store rows whose distance to the query is below minimal_distance.
Qualifying == {i \in 1..Len(products) : Under(i)}

\* C21: cutting at top_k before the threshold test loses no qualifying
\* record: semantics has min(top_k, M) entries for M qualifying records,
\* they are distinct records in ascending order of distance, none of the
\* records left out is nearer than a returned one, and every entry carries
\* the id, code and description of the row whose vector gave its distance.
C21_TopKOfQualifying ==
    Ranked =>
        /\ Len(Semantics) = Min2(top_k, Cardinality(Qualifying))
        /\ \A n \in 1..Len(Semantics) :
              LET i == RowOf(Semantics[n])
              IN  /\ i \in Qualifying
                  /\ Semantics[n].distance = RowDist(i)
                  /\ Semantics[n].id = products[i].id
                  /\ Semantics[n].code = products[i].code
                  /\ Semantics[n].description = products[i].description
        /\ \A n, m \in 1..Len(Semantics) :
              n < m => /\ RowOf(Semantics[n]) # RowOf(Semantics[m])
                       /\ Semantics[n].distance <= Semantics[m].distance
        /\ \A i \in 1..Len(products) :
              (\A n \in 1..Len(Semantics) : RowOf(Semantics[n]) # i)
                  => \A n \in 1..Len(Semantics) : Semantics[n].distance <= RowDist(i)

\* Two records qualify, top_k is 1 and the record returned is the second
\* row, which is nearer than the first.
C21_Witness ==
    /\ Ranked
    /\ top_k = 1
    /\ Cardinality(Qualifying) = 2
    /\ Len(Semantics) = 1
    /\ RowOf(Semantics[1]) = 2
    /\ RowDist(2) < RowDist(1)

\* C24: every invocation of the agent is passed a message list that holds
\* exactly the current query.
C24_OnlyCurrentQueryPassed ==
    (agent.at # "off" /\ agent.invoked) => agent.passed = <<agent.query>>

\* C25: when the loop is back at input() after a query that was neither
\* blank nor quit/exit, it has printed ASSIST_BEGIN, the response text and
\* ASSIST_END, in this order.
C25_BlockPrintedForEveryQuery ==
    (agent.at = "input" /\ agent.processed) =>
        \E i \in 1..(Len(agent.printed) - 2) :
            /\ agent.printed[i] = BeginLine
            /\ agent.printed[i + 1] = TextLine(agent.response)
            /\ agent.printed[i + 2] = EndLine

\* C22: a reply that send_message built from a block is the block the agent
\* printed in answer to the same message.
C22_ReplyAnswersItsMessage ==
    (bridge.on /\ bridge.reply.kind = "block") =>
        bridge.reply.lines = <<AnswerText(bridge.reply.msg)>>

\* C23: while the current agent process runs and has not printed READY,
\* agent_status is "Initializing".
C23_StatusOfCurrentProcess ==
    (/\ bridge.on
     /\ bridge.proc # 0
     /\ bridge.procs[bridge.proc].alive
     /\ ~bridge.procs[bridge.proc].ready) =>
        bridge.agent_status = "Initializing"

====
